---- MODULE Spec2Model ----
(* Scene-graph construction, per-frame update, orbit-path extraction and    *)
(* teardown of PlanetarySystem (src/src/planet/planetarysystem.cpp).        *)
EXTENDS Integers, Sequences, FiniteSets, TLC

(* ------------------------------------------------------------------------ *)
(* Bounds of the model                                                      *)
(* ------------------------------------------------------------------------ *)
MaxPlanets == 4   \* largest number of orbiting bodies in a catalog
MaxBuilds == 2    \* generateSolarSystem calls per PlanetarySystem
MaxUpdates == 1   \* update calls per PlanetarySystem

\* values std::random_device may deliver as the seed
SeedValues == {1, 2}

(* ------------------------------------------------------------------------ *)
(* float: decimal floating point, m * 10^e with a four-digit mantissa,      *)
(* plus inf, -inf and NaN                                                   *)
(* ------------------------------------------------------------------------ *)
MantissaMin == 1000
MantissaEnd == 10000

Abs(x) == IF x < 0 THEN -x ELSE x

Sgn(x) == IF x > 0 THEN 1 ELSE IF x < 0 THEN -1 ELSE 0

\* integer division rounding towards zero
TruncDiv(x, y) == Sgn(x) * Sgn(y) * (Abs(x) \div Abs(y))

RECURSIVE Pow10(_)
Pow10(k) == IF k = 0 THEN 1 ELSE 10 * Pow10(k - 1)

RECURSIVE F(_, _)
\* the float nearest below m * 10^e in magnitude, mantissa normalised
F(m, e) ==
    IF m = 0 THEN [k |-> "fin", m |-> 0, e |-> 0]
    ELSE IF Abs(m) >= MantissaEnd THEN F(TruncDiv(m, 10), e + 1)
    ELSE IF Abs(m) < MantissaMin THEN F(m * 10, e - 1)
    ELSE [k |-> "fin", m |-> m, e |-> e]

PosInf == [k |-> "inf", m |-> 1, e |-> 0]
NegInf == [k |-> "inf", m |-> -1, e |-> 0]
NaN == [k |-> "nan", m |-> 0, e |-> 0]

IsFinite(a) == a.k = "fin"

Signed(s) == IF s > 0 THEN PosInf ELSE NegInf

FAdd(a, b) ==
    IF a.k = "nan" \/ b.k = "nan" THEN NaN
    ELSE IF a.k = "inf" /\ b.k = "inf" THEN (IF a.m = b.m THEN a ELSE NaN)
    ELSE IF a.k = "inf" THEN a
    ELSE IF b.k = "inf" THEN b
    ELSE IF a.m = 0 THEN b
    ELSE IF b.m = 0 THEN a
    ELSE IF a.e - b.e > 5 THEN a
    ELSE IF b.e - a.e > 5 THEN b
    ELSE LET e == IF a.e < b.e THEN a.e ELSE b.e
         IN  F(a.m * Pow10(a.e - e) + b.m * Pow10(b.e - e), e)

FMul(a, b) ==
    IF a.k = "nan" \/ b.k = "nan" THEN NaN
    ELSE IF a.k = "inf" \/ b.k = "inf"
         THEN (IF a.m = 0 \/ b.m = 0 THEN NaN ELSE Signed(Sgn(a.m) * Sgn(b.m)))
    ELSE F(a.m * b.m, a.e + b.e)

FDiv(a, b) ==
    IF a.k = "nan" \/ b.k = "nan" THEN NaN
    ELSE IF a.k = "inf" /\ b.k = "inf" THEN NaN
    ELSE IF a.k = "inf" THEN Signed(IF b.m < 0 THEN -a.m ELSE a.m)
    ELSE IF b.k = "inf" THEN F(0, 0)
    ELSE IF b.m = 0 THEN (IF a.m = 0 THEN NaN ELSE Signed(a.m))
    ELSE F(TruncDiv(a.m * MantissaEnd, b.m), a.e - b.e - 4)

RECURSIVE Log10Bits(_, _, _)
\* the first `bits` binary digits of log10(y / MantissaMin), MantissaMin <= y < MantissaEnd
Log10Bits(y, bits, acc) ==
    IF bits = 0 THEN acc
    ELSE LET sq == (y * y) \div MantissaMin
         IN  IF sq >= MantissaEnd THEN Log10Bits(sq \div 10, bits - 1, 2 * acc + 1)
             ELSE Log10Bits(sq, bits - 1, 2 * acc)

\* log10 of a float: NaN below zero, -inf at zero
log10(a) ==
    IF a.k = "nan" THEN NaN
    ELSE IF a.k = "inf" THEN (IF a.m > 0 THEN PosInf ELSE NaN)
    ELSE IF a.m < 0 THEN NaN
    ELSE IF a.m = 0 THEN NegInf
    ELSE F(TruncDiv(((a.e + 3) * 1024 + Log10Bits(a.m, 10, 0)) * MantissaEnd, 1024), -4)

RECURSIVE SqrtBetween(_, _, _)
\* the largest r in lo..hi with r * r <= n
SqrtBetween(lo, hi, n) ==
    IF lo = hi THEN lo
    ELSE LET mid == (lo + hi + 1) \div 2
         IN  IF mid * mid <= n THEN SqrtBetween(mid, hi, n) ELSE SqrtBetween(lo, mid - 1, n)

\* sqrt of a float: NaN below zero
sqrt(a) ==
    IF a.k = "nan" THEN NaN
    ELSE IF a.k = "inf" THEN (IF a.m > 0 THEN PosInf ELSE NaN)
    ELSE IF a.m < 0 THEN NaN
    ELSE LET shift == IF a.e % 2 = 0 THEN 4 ELSE 5
         IN  F(SqrtBetween(0, 4 * MantissaEnd, a.m * Pow10(shift)), (a.e - shift) \div 2)

scaleDiameter(diameter) == FMul(FAdd(log10(diameter), F(-3, 0)), F(5, -1))

scaleOrbitalRadius(radius) == FMul(FAdd(log10(radius), F(-12, -1)), F(7, 0))

scaleVelocity(v) == FMul(sqrt(v), F(10, 0))

\* glm::radians
radians(degrees) == FMul(degrees, F(17453, -6))

\* cosine and sine by their series up to the fourth power of the angle
cos(x) == FAdd(FAdd(F(1, 0), FDiv(FMul(x, x), F(-2, 0))), FDiv(FMul(FMul(x, x), FMul(x, x)), F(24, 0)))
sin(x) == FAdd(x, FDiv(FMul(x, FMul(x, x)), F(-6, 0)))

DEFAULT_AXIS == <<F(0, 0), F(1, 0), F(0, 0)>>

\* lines 220-226: DEFAULT_AXIS rotated about X by the inclination, exactly (0,1,0) at 0
computeAxis(inclination) ==
    IF inclination = F(0, 0) THEN DEFAULT_AXIS
    ELSE <<F(0, 0), cos(radians(inclination)), sin(radians(inclination))>>

(* ------------------------------------------------------------------------ *)
(* The catalog: Sun, Moon, Planets                                          *)
(* ------------------------------------------------------------------------ *)
\* index into sun_children of the body the moon is attached to (sun_children[2])
HostIndex == 3

SolarSystemPlanet(fname, d, rv, r, p, incl) ==
    [texture_fname |-> fname, diameter |-> d, rotational_velocity |-> rv,
     orbital_radius |-> r, orbital_period |-> p, orbital_inclination |-> incl]

SunRecord ==
    SolarSystemPlanet("resources/images/sun.jpeg", F(1392684, 0), F(0, 0), F(0, 0), F(0, 0), F(0, 0))

MoonRecord ==
    SolarSystemPlanet("resources/images/moon.jpeg", F(3475, 0), F(167, -1), F(384, -3), F(273, -1),
                      F(51, -1))

PlanetRecords == <<
    SolarSystemPlanet("resources/images/mercury.jpeg", F(4879, 0), F(1083, -2), F(579, -1), F(88, 0), F(70, -1)),
    SolarSystemPlanet("resources/images/venus.jpeg", F(12104, 0), F(652, -2), F(1082, -1), F(2247, -1), F(34, -1)),
    SolarSystemPlanet("resources/images/earth.jpeg", F(12756, 0), F(1574, 0), F(1496, -1), F(3652, -1), F(0, 0)),
    SolarSystemPlanet("resources/images/mars.jpeg", F(6792, 0), F(866, 0), F(228, 0), F(687, 0), F(18, -1)),
    SolarSystemPlanet("resources/images/jupiter.jpeg", F(142984, 0), F(45583, 0), F(7785, -1), F(4331, 0), F(13, -1)),
    SolarSystemPlanet("resources/images/saturn.jpeg", F(120536, 0), F(36840, 0), F(1432, 0), F(10747, 0), F(25, -1)),
    SolarSystemPlanet("resources/images/uranus.jpeg", F(51118, 0), F(14798, 0), F(2867, 0), F(30589, 0), F(8, -1)),
    SolarSystemPlanet("resources/images/neptune.jpeg", F(49528, 0), F(9719, 0), F(4515, 0), F(59800, 0), F(18, -1)) >>

\* ways a record can be malformed: a zero diameter (log10 gives -inf), a negative
\* orbital radius (log10 gives NaN), a zero orbital period (1 / period gives +inf)
MalformedFields ==
    {<<"diameter", F(0, 0)>>, <<"orbital_radius", F(-1, 0)>>, <<"orbital_period", F(0, 0)>>}

\* catalogs: the first C orbiting bodies of the table, at most one of them
\* malformed in one field
Catalogs ==
    { [i \in 1..C |-> IF i = bad THEN [PlanetRecords[i] EXCEPT ![f[1]] = f[2]] ELSE PlanetRecords[i]] :
        C \in HostIndex..MaxPlanets, bad \in 0..MaxPlanets, f \in MalformedFields }

(* ------------------------------------------------------------------------ *)
(* State                                                                    *)
(* ------------------------------------------------------------------------ *)
VARIABLES
    Sun, Moon, Planets,   \* the catalog globals
    heap,                 \* every Planet object allocated so far; the index is its address
    deleted,              \* for each Planet object, how many times it was deleted
    shapes,               \* every RenderShapeData object allocated so far
    m_root,               \* PlanetarySystem::m_root, 0 for nullptr
    pc,                   \* position inside generateSolarSystem, "idle" outside of it
    gen,                  \* locals of generateSolarSystem: sun, sun_children, data, moon, mt
    data,                 \* the vector generateSolarSystem returned last
    orbit_ctms,           \* the vector returned by getOrbitCtms, while that is the last call
    delLog,               \* deletePlanet's entries and deletes, in order
    lastCall,             \* the member function that ran last, and whether m_root was nullptr
    status,               \* "running", "crashed" or "destroyed"
    builds, updates       \* calls made so far

vars == <<Sun, Moon, Planets, heap, deleted, shapes, m_root, pc, gen, data,
          orbit_ctms, delLog, lastCall, status, builds, updates>>

nullptr == 0

NoLocals == [sun |-> nullptr, sun_children |-> <<>>, data |-> <<>>, moon |-> nullptr,
             i |-> 0, mt |-> [seed |-> 0, n |-> 0]]

Init ==
    /\ Sun = SunRecord
    /\ Moon = MoonRecord
    /\ Planets \in Catalogs
    /\ heap = <<>>
    /\ deleted = <<>>
    /\ shapes = <<>>
    /\ m_root = nullptr
    /\ pc = "idle"
    /\ gen = NoLocals
    /\ data = <<>>
    /\ orbit_ctms = <<>>
    /\ delLog = <<>>
    /\ lastCall = [op |-> "none", unbuilt |-> TRUE]
    /\ status = "running"
    /\ builds = 0
    /\ updates = 0

(* ------------------------------------------------------------------------ *)
(* Planet and RenderShapeData objects                                       *)
(* ------------------------------------------------------------------------ *)
\* new Planet(...): no parent, no children, spin angle 0
Planet(scale, orbitalRate, selfSpinRate, phase, orbitRadius, axis, shape) ==
    [scale |-> scale, orbitalRate |-> orbitalRate, selfSpinRate |-> selfSpinRate,
     phase |-> phase, spinAngle |-> F(0, 0), orbitRadius |-> orbitRadius, axis |-> axis,
     shape |-> shape, parent |-> nullptr, children |-> <<>>]

setParent(h, p, parent) == [h EXCEPT ![p].parent = parent]

setChildren(h, p, children) == [h EXCEPT ![p].children = children]

RenderShapeData(filename, blend) == [filename |-> filename, blend |-> blend]

\* 2 * pi in hundredths, the upper end of the phase distribution
TwoPiHundredths == 628

\* dist(mt): the next value of the generator seeded with rd(), in [0, 2*pi)
dist(mt) == F((mt.seed * 137 + mt.n * 211) % TwoPiHundredths, -2)

advance(mt) == [mt EXCEPT !.n = @ + 1]

(* ------------------------------------------------------------------------ *)
(* generateSolarSystem, statement by statement                              *)
(* ------------------------------------------------------------------------ *)
\* lines 135-155: the sun, its payload, the random source
genSun ==
    /\ status = "running" /\ pc = "idle" /\ builds < MaxBuilds
    /\ \E rd \in SeedValues :
        LET sun_shape == Len(shapes) + 1
            sun == Len(heap) + 1
        IN  /\ shapes' = Append(shapes, RenderShapeData(Sun.texture_fname, F(1, 0)))
            /\ heap' = Append(heap, Planet(scaleDiameter(Sun.diameter), F(0, 0), F(0, 0), F(0, 0),
                                           F(0, 0), DEFAULT_AXIS, sun_shape))
            /\ deleted' = Append(deleted, 0)
            /\ gen' = [NoLocals EXCEPT !.sun = sun, !.data = <<sun_shape>>, !.i = 1,
                                       !.mt = [seed |-> rd, n |-> 0]]
    /\ pc' = "planets"
    /\ builds' = builds + 1
    /\ orbit_ctms' = <<>>
    /\ UNCHANGED <<Sun, Moon, Planets, m_root, data, delLog, lastCall, status, updates>>

\* genPlanet with the payload inserted at the front of data instead of pushed back
genPlanet_front ==
    /\ pc = "planets" /\ gen.i <= Len(Planets)
    /\ LET planet == Planets[gen.i]
           p_shape == Len(shapes) + 1
           p == Len(heap) + 1
       IN  /\ shapes' = Append(shapes, RenderShapeData(planet.texture_fname, F(5, -1)))
           /\ heap' = setParent(
                        Append(heap, Planet(scaleDiameter(planet.diameter),
                                            scaleVelocity(FDiv(F(1, 0), planet.orbital_period)),
                                            FDiv(planet.rotational_velocity, planet.diameter),
                                            dist(gen.mt),
                                            scaleOrbitalRadius(planet.orbital_radius),
                                            computeAxis(planet.orbital_inclination),
                                            p_shape)),
                        p, gen.sun)
           /\ deleted' = Append(deleted, 0)
           /\ gen' = [gen EXCEPT !.sun_children = Append(@, p), !.data = <<p_shape>> \o @,
                                 !.i = @ + 1, !.mt = advance(@)]
    /\ UNCHANGED <<Sun, Moon, Planets, m_root, pc, data, orbit_ctms, delLog, lastCall, status,
                   builds, updates>>

\* lines 158-171: one iteration of the loop over Planets
genPlanet ==
    /\ pc = "planets" /\ gen.i <= Len(Planets)
    /\ LET planet == Planets[gen.i]
           p_shape == Len(shapes) + 1
           p == Len(heap) + 1
       IN  /\ shapes' = Append(shapes, RenderShapeData(planet.texture_fname, F(5, -1)))
           /\ heap' = setParent(
                        Append(heap, Planet(scaleDiameter(planet.diameter),
                                            scaleVelocity(FDiv(F(1, 0), planet.orbital_period)),
                                            FDiv(planet.rotational_velocity, planet.diameter),
                                            dist(gen.mt),
                                            scaleOrbitalRadius(planet.orbital_radius),
                                            computeAxis(planet.orbital_inclination),
                                            p_shape)),
                        p, gen.sun)
           /\ deleted' = Append(deleted, 0)
           /\ gen' = [gen EXCEPT !.sun_children = Append(@, p), !.data = Append(@, p_shape),
                                 !.i = @ + 1, !.mt = advance(@)]
    /\ UNCHANGED <<Sun, Moon, Planets, m_root, pc, data, orbit_ctms, delLog, lastCall, status,
                   builds, updates>>

\* lines 174-183: the moon and its payload
genMoon ==
    /\ pc = "planets" /\ gen.i > Len(Planets)
    /\ LET moon_shape == Len(shapes) + 1
           moon == Len(heap) + 1
       IN  /\ shapes' = Append(shapes, RenderShapeData(Moon.texture_fname, F(5, -1)))
           /\ heap' = Append(heap, Planet(FDiv(Moon.diameter, F(20000, 0)),
                                          scaleVelocity(FDiv(F(1, 0), Moon.orbital_period)),
                                          FDiv(Moon.rotational_velocity, Moon.diameter),
                                          dist(gen.mt),
                                          FMul(Moon.orbital_radius, F(15, -1)),
                                          computeAxis(Moon.orbital_inclination),
                                          moon_shape))
           /\ deleted' = Append(deleted, 0)
           /\ gen' = [gen EXCEPT !.moon = moon, !.data = Append(@, moon_shape), !.mt = advance(@)]
    /\ pc' = "moonSetParent"
    /\ UNCHANGED <<Sun, Moon, Planets, m_root, data, orbit_ctms, delLog, lastCall, status,
                   builds, updates>>

\* moonSetParent with the sun as the moon's parent
moonSetParent_sun ==
    /\ pc = "moonSetParent"
    /\ heap' = setParent(heap, gen.moon, gen.sun)
    /\ pc' = "hostSetChildren"
    /\ UNCHANGED <<Sun, Moon, Planets, deleted, shapes, m_root, gen, data, orbit_ctms, delLog,
                   lastCall, status, builds, updates>>

\* line 186: moon->setParent(sun_children[2])
moonSetParent ==
    /\ pc = "moonSetParent"
    /\ heap' = setParent(heap, gen.moon, gen.sun_children[HostIndex])
    /\ pc' = "hostSetChildren"
    /\ UNCHANGED <<Sun, Moon, Planets, deleted, shapes, m_root, gen, data, orbit_ctms, delLog,
                   lastCall, status, builds, updates>>

\* hostSetChildren with the statement left out
hostSetChildren_omitted ==
    /\ pc = "hostSetChildren"
    /\ heap' = heap
    /\ pc' = "sunSetChildren"
    /\ UNCHANGED <<Sun, Moon, Planets, deleted, shapes, m_root, gen, data, orbit_ctms, delLog,
                   lastCall, status, builds, updates>>

\* hostSetChildren called on the sun instead of sun_children[2]
hostSetChildren_onSun ==
    /\ pc = "hostSetChildren"
    /\ heap' = setChildren(heap, gen.sun, <<gen.moon>>)
    /\ pc' = "sunSetChildren"
    /\ UNCHANGED <<Sun, Moon, Planets, deleted, shapes, m_root, gen, data, orbit_ctms, delLog,
                   lastCall, status, builds, updates>>

\* line 187: sun_children[2]->setChildren({ moon })
hostSetChildren ==
    /\ pc = "hostSetChildren"
    /\ heap' = setChildren(heap, gen.sun_children[HostIndex], <<gen.moon>>)
    /\ pc' = "sunSetChildren"
    /\ UNCHANGED <<Sun, Moon, Planets, deleted, shapes, m_root, gen, data, orbit_ctms, delLog,
                   lastCall, status, builds, updates>>

\* line 188: sun->setChildren(sun_children)
sunSetChildren ==
    /\ pc = "sunSetChildren"
    /\ heap' = setChildren(heap, gen.sun, gen.sun_children)
    /\ pc' = "return"
    /\ UNCHANGED <<Sun, Moon, Planets, deleted, shapes, m_root, gen, data, orbit_ctms, delLog,
                   lastCall, status, builds, updates>>

\* lines 190-192: m_root = sun; return data
genReturn ==
    /\ pc = "return"
    /\ m_root' = gen.sun
    /\ data' = gen.data
    /\ gen' = NoLocals
    /\ pc' = "idle"
    /\ lastCall' = [op |-> "generateSolarSystem", unbuilt |-> m_root = nullptr]
    /\ UNCHANGED <<Sun, Moon, Planets, heap, deleted, shapes, orbit_ctms, delLog, status,
                   builds, updates>>

(* ------------------------------------------------------------------------ *)
(* update                                                                   *)
(* ------------------------------------------------------------------------ *)
\* frame times passed to update
DeltaTimes == {F(0, 0), F(1, 0)}

RECURSIVE updateCTM(_, _, _)
RECURSIVE updateChildren(_, _, _, _)
\* Planet::updateCTM: phase and spin angle advance by rate * deltaTime, then the children
updateCTM(h, p, deltaTime) ==
    LET h1 == [h EXCEPT ![p].phase = FAdd(@, FMul(h[p].orbitalRate, deltaTime)),
                        ![p].spinAngle = FAdd(@, FMul(h[p].selfSpinRate, deltaTime))]
    IN  updateChildren(h1, h[p].children, 1, deltaTime)

updateChildren(h, kids, i, deltaTime) ==
    IF i > Len(kids) THEN h
    ELSE updateChildren(updateCTM(h, kids[i], deltaTime), kids, i + 1, deltaTime)

\* lines 195-197; on a null m_root the call is undefined: it faults, or it returns
update ==
    /\ status = "running" /\ pc = "idle" /\ updates < MaxUpdates
    /\ updates' = updates + 1
    /\ lastCall' = [op |-> "update", unbuilt |-> m_root = nullptr]
    /\ \E deltaTime \in DeltaTimes :
        IF m_root # nullptr
        THEN /\ heap' = updateCTM(heap, m_root, deltaTime)
             /\ status' = status
        ELSE /\ heap' = heap
             /\ status' \in {"crashed", "running"}
    /\ orbit_ctms' = <<>>
    /\ UNCHANGED <<Sun, Moon, Planets, deleted, shapes, m_root, pc, gen, data, delLog, builds>>

(* ------------------------------------------------------------------------ *)
(* getOrbitCtms                                                             *)
(* ------------------------------------------------------------------------ *)
\* Planet::getTranslateMat: the translation to the body's place on its orbit
getTranslateMat(h, p) == <<h[p].axis, h[p].orbitRadius, h[p].phase>>

\* Planet::getOrientMat: the orientation given by the body's axis
getOrientMat(h, p) == h[p].axis

\* line 203: the ring of p's orbit, centred on p's parent
OrbitCtm(h, p) ==
    [translate |-> getTranslateMat(h, h[p].parent),
     scale |-> FMul(F(2, 0), h[p].orbitRadius),
     orient |-> getOrientMat(h, p)]

RECURSIVE getOrbitCtmsHelper(_, _, _)
RECURSIVE getOrbitCtmsChildren(_, _, _, _)
\* getOrbitCtmsHelper pushing p's entry after the entries of p's children
getOrbitCtmsHelper_postorder(h, ctms, p) ==
    LET below == getOrbitCtmsChildren(h, ctms, h[p].children, 1)
    IN  IF h[p].parent # nullptr THEN Append(below, OrbitCtm(h, p)) ELSE below

\* lines 199-209
getOrbitCtmsHelper(h, ctms, p) ==
    LET pushed == IF h[p].parent # nullptr THEN Append(ctms, OrbitCtm(h, p)) ELSE ctms
    IN  getOrbitCtmsChildren(h, pushed, h[p].children, 1)

getOrbitCtmsChildren(h, ctms, kids, i) ==
    IF i > Len(kids) THEN ctms
    ELSE getOrbitCtmsChildren(h, getOrbitCtmsHelper(h, ctms, kids[i]), kids, i + 1)

\* getOrbitCtms advancing the tree by one frame before reading it
getOrbitCtms_advance ==
    /\ status = "running" /\ pc = "idle"
    /\ lastCall' = [op |-> "getOrbitCtms", unbuilt |-> m_root = nullptr]
    /\ IF m_root # nullptr
       THEN /\ heap' = updateCTM(heap, m_root, F(1, 0))
            /\ orbit_ctms' = getOrbitCtmsHelper(heap', <<>>, m_root)
            /\ status' = status
       ELSE /\ heap' = heap
            /\ orbit_ctms' = <<>>
            /\ status' \in {"crashed", "running"}
    /\ UNCHANGED <<Sun, Moon, Planets, deleted, shapes, m_root, pc, gen, data, delLog,
                   builds, updates>>

\* lines 211-217; on a null m_root the helper dereferences nullptr: undefined
getOrbitCtms ==
    /\ status = "running" /\ pc = "idle"
    /\ lastCall' = [op |-> "getOrbitCtms", unbuilt |-> m_root = nullptr]
    /\ IF m_root # nullptr
       THEN /\ orbit_ctms' = getOrbitCtmsHelper(heap, <<>>, m_root)
            /\ status' = status
       ELSE /\ orbit_ctms' = <<>>
            /\ status' \in {"crashed", "running"}
    /\ UNCHANGED <<Sun, Moon, Planets, heap, deleted, shapes, m_root, pc, gen, data, delLog,
                   builds, updates>>

(* ------------------------------------------------------------------------ *)
(* ~PlanetarySystem                                                         *)
(* ------------------------------------------------------------------------ *)
RECURSIVE deletePlanet(_, _)
RECURSIVE deleteChildren(_, _, _)
\* deletePlanet deleting curr before its children
deletePlanet_preorder(h, curr) ==
    <<[ev |-> "enter", p |-> curr], [ev |-> "delete", p |-> curr]>>
        \o deleteChildren(h, h[curr].children, 1)

\* lines 111-116: the calls entered and the objects deleted, in order
deletePlanet(h, curr) ==
    <<[ev |-> "enter", p |-> curr]>> \o deleteChildren(h, h[curr].children, 1)
                                     \o <<[ev |-> "delete", p |-> curr]>>

deleteChildren(h, kids, i) ==
    IF i > Len(kids) THEN <<>>
    ELSE deletePlanet(h, kids[i]) \o deleteChildren(h, kids, i + 1)

Deletes(log, p) == Cardinality({j \in DOMAIN log : log[j] = [ev |-> "delete", p |-> p]})

\* lines 118-120
Destructor ==
    /\ status = "running" /\ pc = "idle"
    /\ LET log == IF m_root # nullptr THEN deletePlanet(heap, m_root) ELSE <<>>
       IN  /\ delLog' = log
           /\ deleted' = [p \in DOMAIN deleted |-> deleted[p] + Deletes(log, p)]
    /\ status' = "destroyed"
    /\ lastCall' = [op |-> "~PlanetarySystem", unbuilt |-> m_root = nullptr]
    /\ orbit_ctms' = <<>>
    /\ UNCHANGED <<Sun, Moon, Planets, heap, shapes, m_root, pc, gen, data, builds, updates>>

generateSolarSystem ==
    genSun \/ genPlanet \/ genMoon \/ moonSetParent \/ hostSetChildren \/ sunSetChildren \/ genReturn

Next == generateSolarSystem \/ update \/ getOrbitCtms \/ Destructor

Spec == Init /\ [][Next]_vars

(* ------------------------------------------------------------------------ *)
(* Properties                                                               *)
(* ------------------------------------------------------------------------ *)
Range(seq) == {seq[j] : j \in DOMAIN seq}

RECURSIVE Closure(_)
\* the Planet objects reachable from the set S along children lists
Closure(S) ==
    LET N == S \cup UNION {Range(heap[p].children) : p \in S}
    IN  IF N = S THEN S ELSE Closure(N)

Tree == IF m_root = nullptr THEN {} ELSE Closure({m_root})

Built == m_root # nullptr /\ status = "running"

NumBodies == Len(Planets)

\* C1: the tree left by generateSolarSystem has 1 + C + 1 nodes, the root has C
\* children, exactly one of them has exactly one child and the others have none.
C1_TreeShape ==
    Built =>
        LET kids == heap[m_root].children
        IN  /\ Cardinality(Tree) = 1 + NumBodies + 1
            /\ Len(kids) = NumBodies
            /\ Cardinality({j \in DOMAIN kids : Len(heap[kids[j]].children) = 1}) = 1
            /\ Cardinality({j \in DOMAIN kids : Len(heap[kids[j]].children) = 0}) = NumBodies - 1

C1_Witness ==
    /\ Built /\ lastCall.op = "generateSolarSystem" /\ pc = "idle"
    /\ NumBodies > HostIndex
    /\ Len(heap[heap[m_root].children[HostIndex]].children) = 1

Index(log, e) == CHOOSE j \in DOMAIN log : log[j] = e

\* C2: the destructor deletes every node of the tree exactly once, every node's
\* children before the node, and enters or deletes no node after its deletion.
C2_PostOrderTeardown ==
    (status = "destroyed" /\ m_root # nullptr) =>
        /\ \A p \in Tree :
            /\ Deletes(delLog, p) = 1
            /\ deleted[p] = 1
            /\ \A c \in Range(heap[p].children) :
                 Index(delLog, [ev |-> "delete", p |-> c]) < Index(delLog, [ev |-> "delete", p |-> p])
        /\ \A j, k \in DOMAIN delLog :
             (delLog[j].ev = "delete" /\ k > j) => delLog[k].p # delLog[j].p
        /\ \A j \in DOMAIN delLog : delLog[j].p \in Tree

C2_Witness ==
    /\ status = "destroyed" /\ m_root # nullptr
    /\ NumBodies > HostIndex
    /\ delLog[Len(delLog)] = [ev |-> "delete", p |-> m_root]
    /\ \E p \in Tree : heap[p].parent # nullptr /\ heap[p].parent # m_root /\ deleted[p] = 1

RECURSIVE ChildrenThenGrandchildren(_, _)
\* each of kids from the j-th on, each followed by its own children
ChildrenThenGrandchildren(kids, j) ==
    IF j > Len(kids) THEN <<>>
    ELSE <<kids[j]>> \o heap[kids[j]].children \o ChildrenThenGrandchildren(kids, j + 1)

\* C3: getOrbitCtms on a built tree returns C + 1 entries, one per non-root node
\* and none for the root, the root's children in construction order and the
\* satellite's entry right after its host's.
C3_OrbitCtmsPreOrder ==
    (Built /\ pc = "idle" /\ lastCall = [op |-> "getOrbitCtms", unbuilt |-> FALSE]) =>
        LET order == ChildrenThenGrandchildren(heap[m_root].children, 1)
        IN  /\ Len(orbit_ctms) = NumBodies + 1
            /\ Range(order) = Tree \ {m_root}
            /\ orbit_ctms = [j \in 1..Len(order) |-> OrbitCtm(heap, order[j])]
            /\ heap[order[HostIndex + 1]].parent = order[HostIndex]

C3_Witness ==
    /\ Built /\ pc = "idle" /\ lastCall = [op |-> "getOrbitCtms", unbuilt |-> FALSE]
    /\ NumBodies > HostIndex
    /\ Len(orbit_ctms) = NumBodies + 1
    /\ updates > 0

\* C4: generateSolarSystem returns C + 2 payloads: the sun's, then one per
\* orbiting body in catalog order, then the moon's; each is the payload its
\* tree node references.
C4_PayloadOrder ==
    Built =>
        LET kids == heap[m_root].children
        IN  /\ Len(data) = NumBodies + 2
            /\ shapes[data[1]].filename = Sun.texture_fname
            /\ heap[m_root].shape = data[1]
            /\ \A j \in 1..NumBodies :
                 /\ shapes[data[j + 1]].filename = Planets[j].texture_fname
                 /\ heap[kids[j]].shape = data[j + 1]
            /\ shapes[data[NumBodies + 2]].filename = Moon.texture_fname
            /\ \E m \in Range(heap[kids[HostIndex]].children) : heap[m].shape = data[NumBodies + 2]

C4_Witness ==
    /\ Built /\ lastCall.op = "generateSolarSystem" /\ pc = "idle"
    /\ NumBodies > HostIndex
    /\ Len(data) = NumBodies + 2

Finite(p) ==
    /\ IsFinite(heap[p].scale) /\ IsFinite(heap[p].orbitalRate)
    /\ IsFinite(heap[p].selfSpinRate) /\ IsFinite(heap[p].orbitRadius)

Malformed(planet) ==
    \/ planet.diameter.m <= 0
    \/ planet.orbital_radius.m <= 0
    \/ planet.orbital_period.m <= 0

\* C5: with a malformed record in the catalog the build constructs no tree:
\* m_root stays unset and no node with a non-finite scale, rate or orbit radius exists.
C5_MalformedCatalogRejected ==
    ((\E j \in DOMAIN Planets : Malformed(Planets[j])) /\ pc = "idle") =>
        /\ m_root = nullptr
        /\ \A p \in DOMAIN heap : Finite(p)

\* C6: update or getOrbitCtms on a system whose tree was never built ends in a
\* fatal stop and never returns.
C6_UnbuiltCallIsFatal ==
    (lastCall.op \in {"update", "getOrbitCtms"} /\ lastCall.unbuilt) => status = "crashed"

\* C7: in the built tree the root has no parent, every other node has one
\* parent, n is in p's children list exactly if n's parent is p, no node is in
\* two lists or twice in one, and the moon's parent is the third orbiting body.
C7_ParentChildrenAgree ==
    Built =>
        /\ heap[m_root].parent = nullptr
        /\ \A n \in Tree \ {m_root} : heap[n].parent \in Tree
        /\ \A n, p \in Tree : (n \in Range(heap[p].children)) <=> (heap[n].parent = p)
        /\ \A p \in Tree : Cardinality(Range(heap[p].children)) = Len(heap[p].children)
        /\ \A n \in Tree : Cardinality({p \in Tree : n \in Range(heap[p].children)}) <= 1
        /\ \E n \in Tree : shapes[heap[n].shape].filename = Moon.texture_fname
        /\ \A n \in Tree :
             shapes[heap[n].shape].filename = Moon.texture_fname
                => heap[n].parent = heap[m_root].children[HostIndex]

C7_Witness ==
    /\ Built /\ lastCall.op = "generateSolarSystem" /\ pc = "idle"
    /\ NumBodies > HostIndex
    /\ \E n \in Tree : heap[n].parent # nullptr /\ heap[heap[n].parent].parent = m_root

Structure == [p \in DOMAIN heap |-> <<heap[p].parent, heap[p].children>>]

\* C9: on a built tree update and getOrbitCtms leave the nodes, their parents,
\* their children lists and m_root as they are, and getOrbitCtms leaves every
\* node's state as it is.
C9_CallsKeepStructure ==
    [][(Built /\ pc = "idle" /\ pc' = "idle" /\ status' = "running") =>
         /\ Structure' = Structure
         /\ m_root' = m_root
         /\ deleted' = deleted
         /\ (updates' = updates => heap' = heap)]_vars

C9_Witness ==
    /\ Built /\ lastCall.op = "getOrbitCtms" /\ updates > 0
    /\ \E p \in Tree : heap[p].spinAngle # F(0, 0) /\ heap[p].phase.e >= -2

\* C10: at every moment outside a build each allocated node is deleted at most
\* once and, until deleted, reachable from m_root; after destruction every
\* allocated node has been deleted.
C10_NoNodeLeaked ==
    pc = "idle" =>
        \A p \in DOMAIN heap :
            /\ deleted[p] <= 1
            /\ deleted[p] = 0 => (status # "destroyed" /\ p \in Tree)
====
